---------------------------- MODULE Spec2Model ----------------------------
(* State-machine model of contracts/VotingContract.sol.                    *)
(* Every public function of the contract is one action; a reverted call    *)
(* leaves the storage as it was and only records its revert reason.        *)
EXTENDS Integers, Sequences, FiniteSets, TLC

(* ---------------------------- bounds ----------------------------------- *)
MaxSessions == 2
MaxCandidates == 2
MaxTime == 4
MaxIdentities == 2
MaxRoster == 3
MaxVoteCount == 5
MaxMounts == 2

(* ---------------------------- domains ---------------------------------- *)
ZeroAddress == 0
Identities == 1..MaxIdentities
Deployer == 1
SessionIds == 0..MaxSessions
CandidateIds == 0..MaxCandidates
TimeInputs == 2..(MaxTime - 1)
Titles == {"T"}
Names == {"A", "B"}

(* ------------------------- revert reasons ------------------------------ *)
OK == "ok"
NotFound == "Session does not exist"
VotingNotActive == "Voting is not active for this session"
UnauthorizedCreator == "Only the session creator can perform this action"
UnauthorizedOwner == "OwnableUnauthorizedAccount"
InvalidOwner == "OwnableInvalidOwner"
InvalidTimeRange == "End time must be after start time"
SessionEnded == "You cannot add a candidate to a voting session that has already ended."
VotingAlreadyOpen == "Candidates cannot be added during the voting period."
AlreadyVoted == "You have already voted"
InvalidCandidate == "Invalid candidate ID"
SessionStillActive == "Cannot archive active session"
NoCandidates == "No candidates in the session"

NoEvent == [type |-> "none"]

VARIABLES owner, sessionCount, votingSessions, now, lastCall, emitted, prev,
          audit, pc, ui

vars == <<owner, sessionCount, votingSessions, now, lastCall, emitted, prev,
          audit, pc, ui>>

(* The browser before VotingPage is mounted: no component, no listener on  *)
(* window.ethereum.                                                        *)
NoPage ==
    [mounted |-> FALSE, instance |-> 0, listeners |-> {},
     walletConnected |-> FALSE, sessions |-> <<>>]

(* No call is executing.                                                   *)
Idle == [line |-> 0]

(* The events emitted so far: VotingSessionCreated counted in all,         *)
(* VoteCast counted per session and voter, and the new owners named by     *)
(* OwnershipTransferred (the constructor emits the first, for the          *)
(* deployer).                                                              *)
NoAudit ==
    [created |-> 0,
     voteCast |-> [s \in SessionIds |-> [a \in Identities |-> 0]],
     owners |-> {Deployer}]

(* The counts after a call that emitted event (NoEvent when it reverted).  *)
Recorded(event) ==
    IF event.type = "VotingSessionCreated"
    THEN [audit EXCEPT !.created = @ + 1]
    ELSE IF event.type = "VoteCast"
    THEN [audit EXCEPT !.voteCast[event.sessionId][event.voter] = @ + 1]
    ELSE IF event.type = "OwnershipTransferred"
    THEN [audit EXCEPT !.owners = @ \cup {event.newOwner}]
    ELSE audit

(* The storage as a call finds it; prev holds it for the last call made.   *)
Snapshot ==
    [owner |-> owner, sessionCount |-> sessionCount,
     votingSessions |-> votingSessions]

(* A storage slot of the votingSessions mapping that was never written.    *)
EmptySession ==
    [id |-> 0, title |-> "", startTime |-> 0, endTime |-> 0,
     candidates |-> <<>>, hasVoted |-> [a \in Identities |-> FALSE],
     isActive |-> FALSE, creator |-> ZeroAddress]

(* ---------------------------- modifiers -------------------------------- *)
(* Variant: the window is open at its end, `<` for `<=`.                    *)
onlyDuringVotingPeriod_openEnd(sessionId) ==
    /\ now >= votingSessions[sessionId].startTime
    /\ now < votingSessions[sessionId].endTime

onlyDuringVotingPeriod(sessionId) ==
    /\ now >= votingSessions[sessionId].startTime
    /\ now <= votingSessions[sessionId].endTime

sessionExists(sessionId) == votingSessions[sessionId].id = sessionId

onlySessionCreator(sender, sessionId) ==
    sender = votingSessions[sessionId].creator

onlyOwner(sender) == sender = owner

(* ------------------------------ Init ----------------------------------- *)
Init ==
    /\ owner = Deployer
    /\ sessionCount = 0
    /\ votingSessions = [s \in SessionIds |-> EmptySession]
    /\ now = 1
    /\ lastCall = [op |-> "constructor", sender |-> Deployer, result |-> OK]
    /\ emitted = NoEvent
    /\ prev = [owner |-> Deployer, sessionCount |-> 0,
               votingSessions |-> [s \in SessionIds |-> EmptySession]]
    /\ audit = NoAudit
    /\ pc = Idle
    /\ ui = NoPage

(* A reverted call: storage untouched, nothing emitted.                    *)
Revert ==
    /\ UNCHANGED <<owner, sessionCount, votingSessions, now>>
    /\ emitted' = NoEvent

(* ----------------------- createVotingSession --------------------------- *)
(* Variant: `>=` for `>` in the time-range require.                        *)
createVotingSessionResult_nonStrict(sender, startTime, endTime) ==
    IF ~onlyOwner(sender) THEN UnauthorizedOwner
    ELSE IF ~(endTime >= startTime) THEN InvalidTimeRange
    ELSE OK

(* Variant: the time-range require runs before the onlyOwner modifier.     *)
createVotingSessionResult_timeFirst(sender, startTime, endTime) ==
    IF ~(endTime > startTime) THEN InvalidTimeRange
    ELSE IF ~onlyOwner(sender) THEN UnauthorizedOwner
    ELSE OK

(* Variant: the onlyOwner modifier is missing.                             *)
createVotingSessionResult_noOwnerCheck(sender, startTime, endTime) ==
    IF ~(endTime > startTime) THEN InvalidTimeRange
    ELSE OK

createVotingSessionResult(sender, startTime, endTime) ==
    IF ~onlyOwner(sender) THEN UnauthorizedOwner
    ELSE IF ~(endTime > startTime) THEN InvalidTimeRange
    ELSE OK

(* Variant: sessionCount is incremented before the id is stored.           *)
createVotingSession_idAfterIncrement(sender, title, startTime, endTime) ==
    LET r == createVotingSessionResult(sender, startTime, endTime) IN
    /\ sessionCount < MaxSessions
    /\ prev' = Snapshot
    /\ pc' = pc
    /\ ui' = ui
    /\ lastCall' = [op |-> "createVotingSession", sender |-> sender,
                    title |-> title, startTime |-> startTime,
                    endTime |-> endTime, result |-> r]
    /\ IF r = OK
       THEN /\ votingSessions' =
                 [votingSessions EXCEPT ![sessionCount] =
                     [@ EXCEPT !.id = sessionCount + 1, !.title = title,
                               !.startTime = startTime, !.endTime = endTime,
                               !.isActive = TRUE, !.creator = sender]]
            /\ emitted' = [type |-> "VotingSessionCreated", creator |-> sender,
                           sessionId |-> sessionCount, title |-> title,
                           startTime |-> startTime, endTime |-> endTime]
            /\ sessionCount' = sessionCount + 1
            /\ UNCHANGED <<owner, now>>
       ELSE Revert
    /\ audit' = Recorded(emitted')

(* Variant: the increment of sessionCount is missing.                      *)
createVotingSession_noIncrement(sender, title, startTime, endTime) ==
    LET r == createVotingSessionResult(sender, startTime, endTime) IN
    /\ sessionCount < MaxSessions
    /\ prev' = Snapshot
    /\ pc' = pc
    /\ ui' = ui
    /\ lastCall' = [op |-> "createVotingSession", sender |-> sender,
                    title |-> title, startTime |-> startTime,
                    endTime |-> endTime, result |-> r]
    /\ IF r = OK
       THEN /\ votingSessions' =
                 [votingSessions EXCEPT ![sessionCount] =
                     [@ EXCEPT !.id = sessionCount, !.title = title,
                               !.startTime = startTime, !.endTime = endTime,
                               !.isActive = TRUE, !.creator = sender]]
            /\ emitted' = [type |-> "VotingSessionCreated", creator |-> sender,
                           sessionId |-> sessionCount, title |-> title,
                           startTime |-> startTime, endTime |-> endTime]
            /\ UNCHANGED <<owner, now, sessionCount>>
       ELSE Revert
    /\ audit' = Recorded(emitted')

(* Variant: the write of isActive is missing.                              *)
createVotingSession_inactive(sender, title, startTime, endTime) ==
    LET r == createVotingSessionResult(sender, startTime, endTime) IN
    /\ sessionCount < MaxSessions
    /\ prev' = Snapshot
    /\ pc' = pc
    /\ ui' = ui
    /\ lastCall' = [op |-> "createVotingSession", sender |-> sender,
                    title |-> title, startTime |-> startTime,
                    endTime |-> endTime, result |-> r]
    /\ IF r = OK
       THEN /\ votingSessions' =
                 [votingSessions EXCEPT ![sessionCount] =
                     [@ EXCEPT !.id = sessionCount, !.title = title,
                               !.startTime = startTime, !.endTime = endTime,
                               !.creator = sender]]
            /\ emitted' = [type |-> "VotingSessionCreated", creator |-> sender,
                           sessionId |-> sessionCount, title |-> title,
                           startTime |-> startTime, endTime |-> endTime]
            /\ sessionCount' = sessionCount + 1
            /\ UNCHANGED <<owner, now>>
       ELSE Revert
    /\ audit' = Recorded(emitted')

createVotingSession(sender, title, startTime, endTime) ==
    LET r == createVotingSessionResult(sender, startTime, endTime) IN
    /\ sessionCount < MaxSessions
    /\ prev' = Snapshot
    /\ pc' = pc
    /\ ui' = ui
    /\ lastCall' = [op |-> "createVotingSession", sender |-> sender,
                    title |-> title, startTime |-> startTime,
                    endTime |-> endTime, result |-> r]
    /\ IF r = OK
       THEN /\ votingSessions' =
                 [votingSessions EXCEPT ![sessionCount] =
                     [@ EXCEPT !.id = sessionCount, !.title = title,
                               !.startTime = startTime, !.endTime = endTime,
                               !.isActive = TRUE, !.creator = sender]]
            /\ emitted' = [type |-> "VotingSessionCreated", creator |-> sender,
                           sessionId |-> sessionCount, title |-> title,
                           startTime |-> startTime, endTime |-> endTime]
            /\ sessionCount' = sessionCount + 1
            /\ UNCHANGED <<owner, now>>
       ELSE Revert
    /\ audit' = Recorded(emitted')

(* ---------------------------- addCandidate ----------------------------- *)
(* Variant: the require on block.timestamp is missing.                     *)
addCandidateResult_noTimeGate(sender, sessionId) ==
    IF ~sessionExists(sessionId) THEN NotFound
    ELSE IF ~onlySessionCreator(sender, sessionId) THEN UnauthorizedCreator
    ELSE IF ~votingSessions[sessionId].isActive THEN SessionEnded
    ELSE OK

(* Variant: `<=` for `<` in the require on block.timestamp.                *)
addCandidateResult_nonStrictStart(sender, sessionId) ==
    IF ~sessionExists(sessionId) THEN NotFound
    ELSE IF ~onlySessionCreator(sender, sessionId) THEN UnauthorizedCreator
    ELSE IF ~votingSessions[sessionId].isActive THEN SessionEnded
    ELSE IF ~(now <= votingSessions[sessionId].startTime) THEN VotingAlreadyOpen
    ELSE OK

(* Variant: the two requires of the body in the other order.               *)
addCandidateResult_timeBeforeActive(sender, sessionId) ==
    IF ~sessionExists(sessionId) THEN NotFound
    ELSE IF ~onlySessionCreator(sender, sessionId) THEN UnauthorizedCreator
    ELSE IF ~(now < votingSessions[sessionId].startTime) THEN VotingAlreadyOpen
    ELSE IF ~votingSessions[sessionId].isActive THEN SessionEnded
    ELSE OK

(* Variant: candidates are accepted until endTime instead of startTime.    *)
addCandidateResult_gateOnEnd(sender, sessionId) ==
    IF ~sessionExists(sessionId) THEN NotFound
    ELSE IF ~onlySessionCreator(sender, sessionId) THEN UnauthorizedCreator
    ELSE IF ~votingSessions[sessionId].isActive THEN SessionEnded
    ELSE IF ~(now < votingSessions[sessionId].endTime) THEN VotingAlreadyOpen
    ELSE OK

addCandidateResult(sender, sessionId) ==
    IF ~sessionExists(sessionId) THEN NotFound
    ELSE IF ~onlySessionCreator(sender, sessionId) THEN UnauthorizedCreator
    ELSE IF ~votingSessions[sessionId].isActive THEN SessionEnded
    ELSE IF ~(now < votingSessions[sessionId].startTime) THEN VotingAlreadyOpen
    ELSE OK

(* Variant: the new candidate is put in front of the list.                 *)
addCandidate_prepend(sender, sessionId, name) ==
    LET r == addCandidateResult(sender, sessionId) IN
    /\ Len(votingSessions[sessionId].candidates) < MaxCandidates
    /\ prev' = Snapshot
    /\ pc' = pc
    /\ ui' = ui
    /\ lastCall' = [op |-> "addCandidate", sender |-> sender,
                    sessionId |-> sessionId, name |-> name, result |-> r]
    /\ IF r = OK
       THEN /\ votingSessions' =
                 [votingSessions EXCEPT ![sessionId].candidates =
                     <<[name |-> name, voteCount |-> 0]>> \o @]
            /\ emitted' = [type |-> "CandidateAdded", sessionId |-> sessionId,
                           candidateName |-> name]
            /\ UNCHANGED <<owner, sessionCount, now>>
       ELSE Revert
    /\ audit' = Recorded(emitted')

addCandidate(sender, sessionId, name) ==
    LET r == addCandidateResult(sender, sessionId) IN
    /\ Len(votingSessions[sessionId].candidates) < MaxCandidates
    /\ prev' = Snapshot
    /\ pc' = pc
    /\ ui' = ui
    /\ lastCall' = [op |-> "addCandidate", sender |-> sender,
                    sessionId |-> sessionId, name |-> name, result |-> r]
    /\ IF r = OK
       THEN /\ votingSessions' =
                 [votingSessions EXCEPT ![sessionId].candidates =
                     Append(@, [name |-> name, voteCount |-> 0])]
            /\ emitted' = [type |-> "CandidateAdded", sessionId |-> sessionId,
                           candidateName |-> name]
            /\ UNCHANGED <<owner, sessionCount, now>>
       ELSE Revert
    /\ audit' = Recorded(emitted')

(* -------------------------------- vote --------------------------------- *)
(* Variant: the hasVoted require is missing.                               *)
voteResult_noHasVotedCheck(sender, sessionId, candidateId) ==
    IF ~onlyDuringVotingPeriod(sessionId) THEN VotingNotActive
    ELSE IF ~sessionExists(sessionId) THEN NotFound
    ELSE IF ~(candidateId < Len(votingSessions[sessionId].candidates))
         THEN InvalidCandidate
    ELSE OK

(* Variant: the candidate-index require runs before the hasVoted require.  *)
voteResult_indexFirst(sender, sessionId, candidateId) ==
    IF ~onlyDuringVotingPeriod(sessionId) THEN VotingNotActive
    ELSE IF ~sessionExists(sessionId) THEN NotFound
    ELSE IF ~(candidateId < Len(votingSessions[sessionId].candidates))
         THEN InvalidCandidate
    ELSE IF votingSessions[sessionId].hasVoted[sender] THEN AlreadyVoted
    ELSE OK

(* Variant: `<=` for `<` in the require on candidateId.                    *)
voteResult_indexOffByOne(sender, sessionId, candidateId) ==
    IF ~onlyDuringVotingPeriod(sessionId) THEN VotingNotActive
    ELSE IF ~sessionExists(sessionId) THEN NotFound
    ELSE IF votingSessions[sessionId].hasVoted[sender] THEN AlreadyVoted
    ELSE IF ~(candidateId <= Len(votingSessions[sessionId].candidates))
         THEN InvalidCandidate
    ELSE OK

(* Variant: a voter of any session counts as having voted.                 *)
voteResult_globalHasVoted(sender, sessionId, candidateId) ==
    IF ~onlyDuringVotingPeriod(sessionId) THEN VotingNotActive
    ELSE IF ~sessionExists(sessionId) THEN NotFound
    ELSE IF \E s \in SessionIds : votingSessions[s].hasVoted[sender]
         THEN AlreadyVoted
    ELSE IF ~(candidateId < Len(votingSessions[sessionId].candidates))
         THEN InvalidCandidate
    ELSE OK

voteResult(sender, sessionId, candidateId) ==
    IF ~onlyDuringVotingPeriod(sessionId) THEN VotingNotActive
    ELSE IF ~sessionExists(sessionId) THEN NotFound
    ELSE IF votingSessions[sessionId].hasVoted[sender] THEN AlreadyVoted
    ELSE IF ~(candidateId < Len(votingSessions[sessionId].candidates))
         THEN InvalidCandidate
    ELSE OK

(* Variant: the voter is recorded but the tally is not incremented.        *)
vote_noIncrement(sender, sessionId, candidateId) ==
    LET r == voteResult(sender, sessionId, candidateId) IN
    /\ prev' = Snapshot
    /\ pc' = pc
    /\ ui' = ui
    /\ lastCall' = [op |-> "vote", sender |-> sender, sessionId |-> sessionId,
                    candidateId |-> candidateId, result |-> r]
    /\ IF r = OK
       THEN /\ votingSessions' =
                 [votingSessions EXCEPT ![sessionId].hasVoted[sender] = TRUE]
            /\ emitted' = [type |-> "VoteCast", voter |-> sender,
                           sessionId |-> sessionId, candidateId |-> candidateId]
            /\ UNCHANGED <<owner, sessionCount, now>>
       ELSE Revert
    /\ audit' = Recorded(emitted')

(* Variant: a vote for an invalid candidate returns early instead of       *)
(* reverting, after the voter has been recorded.                           *)
vote_partialWrite(sender, sessionId, candidateId) ==
    LET r == voteResult(sender, sessionId, candidateId) IN
    /\ prev' = Snapshot
    /\ pc' = pc
    /\ ui' = ui
    /\ lastCall' = [op |-> "vote", sender |-> sender, sessionId |-> sessionId,
                    candidateId |-> candidateId, result |-> r]
    /\ IF r = OK
       THEN /\ votingSessions' =
                 [votingSessions EXCEPT
                     ![sessionId].hasVoted[sender] = TRUE,
                     ![sessionId].candidates[candidateId + 1].voteCount = @ + 1]
            /\ emitted' = [type |-> "VoteCast", voter |-> sender,
                           sessionId |-> sessionId, candidateId |-> candidateId]
            /\ UNCHANGED <<owner, sessionCount, now>>
       ELSE IF r = InvalidCandidate
       THEN /\ votingSessions' =
                 [votingSessions EXCEPT ![sessionId].hasVoted[sender] = TRUE]
            /\ emitted' = NoEvent
            /\ UNCHANGED <<owner, sessionCount, now>>
       ELSE Revert
    /\ audit' = Recorded(emitted')

(* Variant: a vote adds two to the tally.                                  *)
vote_doubleIncrement(sender, sessionId, candidateId) ==
    LET r == voteResult(sender, sessionId, candidateId) IN
    /\ prev' = Snapshot
    /\ pc' = pc
    /\ ui' = ui
    /\ lastCall' = [op |-> "vote", sender |-> sender, sessionId |-> sessionId,
                    candidateId |-> candidateId, result |-> r]
    /\ IF r = OK
       THEN /\ votingSessions' =
                 [votingSessions EXCEPT
                     ![sessionId].hasVoted[sender] = TRUE,
                     ![sessionId].candidates[candidateId + 1].voteCount = @ + 2]
            /\ emitted' = [type |-> "VoteCast", voter |-> sender,
                           sessionId |-> sessionId, candidateId |-> candidateId]
            /\ UNCHANGED <<owner, sessionCount, now>>
       ELSE Revert
    /\ audit' = Recorded(emitted')

vote(sender, sessionId, candidateId) ==
    LET r == voteResult(sender, sessionId, candidateId) IN
    /\ prev' = Snapshot
    /\ pc' = pc
    /\ ui' = ui
    /\ lastCall' = [op |-> "vote", sender |-> sender, sessionId |-> sessionId,
                    candidateId |-> candidateId, result |-> r]
    /\ IF r = OK
       THEN /\ votingSessions' =
                 [votingSessions EXCEPT
                     ![sessionId].hasVoted[sender] = TRUE,
                     ![sessionId].candidates[candidateId + 1].voteCount = @ + 1]
            /\ emitted' = [type |-> "VoteCast", voter |-> sender,
                           sessionId |-> sessionId, candidateId |-> candidateId]
            /\ UNCHANGED <<owner, sessionCount, now>>
       ELSE Revert
    /\ audit' = Recorded(emitted')

(* ---------------------------- archiveSession --------------------------- *)
(* Variant: `>=` for `>` in the require on block.timestamp.                *)
archiveSessionResult_nonStrict(sessionId) ==
    IF ~sessionExists(sessionId) THEN NotFound
    ELSE IF ~(now >= votingSessions[sessionId].endTime) THEN SessionStillActive
    ELSE OK

(* Variant: an extra require(session.isActive).                            *)
archiveSessionResult_onlyActive(sessionId) ==
    IF ~sessionExists(sessionId) THEN NotFound
    ELSE IF ~(now > votingSessions[sessionId].endTime) THEN SessionStillActive
    ELSE IF ~votingSessions[sessionId].isActive THEN SessionEnded
    ELSE OK

(* Variant: the require on block.timestamp is missing.                     *)
archiveSessionResult_noTimeCheck(sessionId) ==
    IF ~sessionExists(sessionId) THEN NotFound
    ELSE OK

archiveSessionResult(sessionId) ==
    IF ~sessionExists(sessionId) THEN NotFound
    ELSE IF ~(now > votingSessions[sessionId].endTime) THEN SessionStillActive
    ELSE OK

(* Variant: isActive is toggled instead of cleared.                        *)
archiveSession_toggle(sender, sessionId) ==
    LET r == archiveSessionResult(sessionId) IN
    /\ prev' = Snapshot
    /\ pc' = pc
    /\ ui' = ui
    /\ lastCall' = [op |-> "archiveSession", sender |-> sender,
                    sessionId |-> sessionId, result |-> r]
    /\ IF r = OK
       THEN /\ votingSessions' =
                 [votingSessions EXCEPT ![sessionId].isActive = ~@]
            /\ emitted' = [type |-> "SessionArchived", sessionId |-> sessionId]
            /\ UNCHANGED <<owner, sessionCount, now>>
       ELSE Revert
    /\ audit' = Recorded(emitted')

(* Variant: archival also clears the tallies of the session.               *)
archiveSession_clearTallies(sender, sessionId) ==
    LET r == archiveSessionResult(sessionId) IN
    /\ prev' = Snapshot
    /\ pc' = pc
    /\ ui' = ui
    /\ lastCall' = [op |-> "archiveSession", sender |-> sender,
                    sessionId |-> sessionId, result |-> r]
    /\ IF r = OK
       THEN /\ votingSessions' =
                 [votingSessions EXCEPT
                     ![sessionId].isActive = FALSE,
                     ![sessionId].candidates =
                         [i \in DOMAIN @ |-> [@[i] EXCEPT !.voteCount = 0]]]
            /\ emitted' = [type |-> "SessionArchived", sessionId |-> sessionId]
            /\ UNCHANGED <<owner, sessionCount, now>>
       ELSE Revert
    /\ audit' = Recorded(emitted')

(* Variant: SessionArchived is emitted only when isActive was still true.  *)
archiveSession_emitOnce(sender, sessionId) ==
    LET r == archiveSessionResult(sessionId) IN
    /\ prev' = Snapshot
    /\ pc' = pc
    /\ ui' = ui
    /\ lastCall' = [op |-> "archiveSession", sender |-> sender,
                    sessionId |-> sessionId, result |-> r]
    /\ IF r = OK
       THEN /\ votingSessions' =
                 [votingSessions EXCEPT ![sessionId].isActive = FALSE]
            /\ emitted' = IF votingSessions[sessionId].isActive
                          THEN [type |-> "SessionArchived",
                                sessionId |-> sessionId]
                          ELSE NoEvent
            /\ UNCHANGED <<owner, sessionCount, now>>
       ELSE Revert
    /\ audit' = Recorded(emitted')

(* Variant: archival also stores the time of archival as endTime.          *)
archiveSession_stampEnd(sender, sessionId) ==
    LET r == archiveSessionResult(sessionId) IN
    /\ prev' = Snapshot
    /\ pc' = pc
    /\ ui' = ui
    /\ lastCall' = [op |-> "archiveSession", sender |-> sender,
                    sessionId |-> sessionId, result |-> r]
    /\ IF r = OK
       THEN /\ votingSessions' =
                 [votingSessions EXCEPT ![sessionId].isActive = FALSE,
                                        ![sessionId].endTime = now]
            /\ emitted' = [type |-> "SessionArchived", sessionId |-> sessionId]
            /\ UNCHANGED <<owner, sessionCount, now>>
       ELSE Revert
    /\ audit' = Recorded(emitted')

archiveSession(sender, sessionId) ==
    LET r == archiveSessionResult(sessionId) IN
    /\ prev' = Snapshot
    /\ pc' = pc
    /\ ui' = ui
    /\ lastCall' = [op |-> "archiveSession", sender |-> sender,
                    sessionId |-> sessionId, result |-> r]
    /\ IF r = OK
       THEN /\ votingSessions' =
                 [votingSessions EXCEPT ![sessionId].isActive = FALSE]
            /\ emitted' = [type |-> "SessionArchived", sessionId |-> sessionId]
            /\ UNCHANGED <<owner, sessionCount, now>>
       ELSE Revert
    /\ audit' = Recorded(emitted')

(* ------------------------------- views --------------------------------- *)
getCandidates(sessionId) ==
    IF ~sessionExists(sessionId) THEN [result |-> NotFound]
    ELSE [result |-> OK, value |-> votingSessions[sessionId].candidates]

(* Variant: `>=` for `>` in the first branch of the scan.                  *)
RECURSIVE winnerScan_lastWins(_, _, _, _, _)
winnerScan_lastWins(candidates, i, maxVotes, tieCount, winnerName) ==
    IF i > Len(candidates) THEN
        IF tieCount > 1 THEN [winnerName |-> "", isTie |-> TRUE]
        ELSE [winnerName |-> winnerName, isTie |-> FALSE]
    ELSE IF candidates[i].voteCount >= maxVotes THEN
        winnerScan_lastWins(candidates, i + 1, candidates[i].voteCount, 1,
                            candidates[i].name)
    ELSE winnerScan_lastWins(candidates, i + 1, maxVotes, tieCount, winnerName)

(* Variant: an equal count is a tie only when the running maximum is > 0.  *)
RECURSIVE winnerScan_noZeroTie(_, _, _, _, _)
winnerScan_noZeroTie(candidates, i, maxVotes, tieCount, winnerName) ==
    IF i > Len(candidates) THEN
        IF tieCount > 1 THEN [winnerName |-> "", isTie |-> TRUE]
        ELSE [winnerName |-> winnerName, isTie |-> FALSE]
    ELSE IF candidates[i].voteCount > maxVotes THEN
        winnerScan_noZeroTie(candidates, i + 1, candidates[i].voteCount, 1,
                             candidates[i].name)
    ELSE IF candidates[i].voteCount = maxVotes /\ maxVotes > 0 THEN
        winnerScan_noZeroTie(candidates, i + 1, maxVotes, tieCount + 1,
                             winnerName)
    ELSE winnerScan_noZeroTie(candidates, i + 1, maxVotes, tieCount,
                              winnerName)

RECURSIVE winnerScan(_, _, _, _, _)
winnerScan(candidates, i, maxVotes, tieCount, winnerName) ==
    IF i > Len(candidates) THEN
        IF tieCount > 1 THEN [winnerName |-> "", isTie |-> TRUE]
        ELSE [winnerName |-> winnerName, isTie |-> FALSE]
    ELSE IF candidates[i].voteCount > maxVotes THEN
        winnerScan(candidates, i + 1, candidates[i].voteCount, 1,
                   candidates[i].name)
    ELSE IF candidates[i].voteCount = maxVotes THEN
        winnerScan(candidates, i + 1, maxVotes, tieCount + 1, winnerName)
    ELSE winnerScan(candidates, i + 1, maxVotes, tieCount, winnerName)

(* Variant: the require on candidates.length is missing.                   *)
getWinner_noEmptyCheck(sessionId) ==
    IF ~sessionExists(sessionId) THEN [result |-> NotFound]
    ELSE [result |-> OK,
          value |-> winnerScan(votingSessions[sessionId].candidates, 1, 0, 0, "")]

(* Variant: the winner is reported only once the session is archived.      *)
getWinner_archivedOnly(sessionId) ==
    IF ~sessionExists(sessionId) THEN [result |-> NotFound]
    ELSE IF votingSessions[sessionId].isActive
    THEN [result |-> VotingNotActive]
    ELSE IF ~(Len(votingSessions[sessionId].candidates) > 0)
    THEN [result |-> NoCandidates]
    ELSE [result |-> OK,
          value |-> winnerScan(votingSessions[sessionId].candidates, 1, 0, 0, "")]

getWinner(sessionId) ==
    IF ~sessionExists(sessionId) THEN [result |-> NotFound]
    ELSE IF ~(Len(votingSessions[sessionId].candidates) > 0)
         THEN [result |-> NoCandidates]
    ELSE [result |-> OK,
          value |-> winnerScan(votingSessions[sessionId].candidates, 1, 0, 0, "")]

(* Variant: the answer does not depend on the user asked about.            *)
hasUserVoted_anyVoter(sessionId, user) ==
    IF ~sessionExists(sessionId) THEN [result |-> NotFound]
    ELSE [result |-> OK,
          value |-> \E a \in Identities : votingSessions[sessionId].hasVoted[a]]

hasUserVoted(sessionId, user) ==
    IF ~sessionExists(sessionId) THEN [result |-> NotFound]
    ELSE [result |-> OK, value |-> votingSessions[sessionId].hasVoted[user]]

getSessionCreator(sessionId) ==
    IF ~sessionExists(sessionId) THEN [result |-> NotFound]
    ELSE [result |-> OK, value |-> votingSessions[sessionId].creator]

(* ------------------- inherited from Ownable ---------------------------- *)
transferOwnership(sender, newOwner) ==
    LET r == IF ~onlyOwner(sender) THEN UnauthorizedOwner
             ELSE IF newOwner = ZeroAddress THEN InvalidOwner
             ELSE OK IN
    /\ prev' = Snapshot
    /\ pc' = pc
    /\ ui' = ui
    /\ lastCall' = [op |-> "transferOwnership", sender |-> sender,
                    newOwner |-> newOwner, result |-> r]
    /\ IF r = OK
       THEN /\ owner' = newOwner
            /\ emitted' = [type |-> "OwnershipTransferred",
                           previousOwner |-> owner, newOwner |-> newOwner]
            /\ UNCHANGED <<sessionCount, votingSessions, now>>
       ELSE Revert
    /\ audit' = Recorded(emitted')

renounceOwnership(sender) ==
    LET r == IF ~onlyOwner(sender) THEN UnauthorizedOwner ELSE OK IN
    /\ prev' = Snapshot
    /\ pc' = pc
    /\ ui' = ui
    /\ lastCall' = [op |-> "renounceOwnership", sender |-> sender, result |-> r]
    /\ IF r = OK
       THEN /\ owner' = ZeroAddress
            /\ emitted' = [type |-> "OwnershipTransferred",
                           previousOwner |-> owner, newOwner |-> ZeroAddress]
            /\ UNCHANGED <<sessionCount, votingSessions, now>>
       ELSE Revert
    /\ audit' = Recorded(emitted')

(* ------------------------- block.timestamp ----------------------------- *)
Tick ==
    /\ now < MaxTime
    /\ now' = now + 1
    /\ prev' = Snapshot
    /\ pc' = pc
    /\ ui' = ui
    /\ lastCall' = [op |-> "tick", result |-> OK]
    /\ emitted' = NoEvent
    /\ audit' = audit
    /\ UNCHANGED <<owner, sessionCount, votingSessions>>

CreateStep ==
    \E sender \in Identities, title \in Titles,
       startTime \in TimeInputs, endTime \in TimeInputs :
        createVotingSession(sender, title, startTime, endTime)

AddCandidateStep ==
    \E sender \in Identities, sessionId \in SessionIds, name \in Names :
        addCandidate(sender, sessionId, name)

VoteStep ==
    \E sender \in Identities, sessionId \in SessionIds,
       candidateId \in CandidateIds :
        vote(sender, sessionId, candidateId)

ArchiveStep ==
    \E sender \in Identities, sessionId \in SessionIds :
        archiveSession(sender, sessionId)

TransferOwnershipStep ==
    \E sender \in Identities, newOwner \in Identities \cup {ZeroAddress} :
        transferOwnership(sender, newOwner)

RenounceOwnershipStep ==
    \E sender \in Identities : renounceOwnership(sender)

Next ==
    \/ CreateStep
    \/ AddCandidateStep
    \/ VoteStep
    \/ ArchiveStep
    \/ Tick

(* The functions VotingContract.sol declares itself.                       *)
Spec == Init /\ [][Next]_vars

NextOwnable ==
    \/ CreateStep
    \/ AddCandidateStep
    \/ TransferOwnershipStep
    \/ RenounceOwnershipStep
    \/ Tick

(* The owner's role: createVotingSession and addCandidate, which depend on *)
(* the owner and creator, with the two functions inherited from Ownable.   *)
SpecOwnable == Init /\ [][NextOwnable]_vars

(* ------------------------------ helpers -------------------------------- *)
Created(sessionId) == sessionId < sessionCount

Voters(session) == {a \in Identities : session.hasVoted[a]}

RECURSIVE SumVotes(_)
SumVotes(candidates) ==
    IF candidates = <<>> THEN 0
    ELSE candidates[1].voteCount + SumVotes(Tail(candidates))

(* ------------------- getWinner as a call of its own -------------------- *)
(* A view call: it returns getWinner's outcome and writes nothing.         *)
getWinnerCall(sender, sessionId) ==
    /\ prev' = Snapshot
    /\ pc' = pc
    /\ ui' = ui
    /\ lastCall' = [op |-> "getWinner", sender |-> sender,
                    sessionId |-> sessionId, ret |-> getWinner(sessionId)]
    /\ emitted' = NoEvent
    /\ audit' = audit
    /\ UNCHANGED <<owner, sessionCount, votingSessions, now>>

(* The rosters getWinner is applied to: up to MaxRoster candidates, each   *)
(* with a name and a tally of up to MaxVoteCount.                          *)
Rosters ==
    UNION {[1..n -> [name : Names, voteCount : 0..MaxVoteCount]] :
              n \in 0..MaxRoster}

(* Session 0 after its voting window, holding the given roster. The voters *)
(* beyond the identities of the model are not represented in hasVoted.     *)
SessionWithRoster(roster) ==
    [id |-> 0, title |-> "T", startTime |-> MaxTime - 2,
     endTime |-> MaxTime - 1, candidates |-> roster,
     hasVoted |-> [a \in Identities |-> a <= SumVotes(roster)],
     isActive |-> TRUE, creator |-> Deployer]

InitWinner ==
    /\ owner = Deployer
    /\ sessionCount = 1
    /\ \E roster \in Rosters :
          votingSessions = [s \in SessionIds |->
                               IF s = 0 THEN SessionWithRoster(roster)
                               ELSE EmptySession]
    /\ now = MaxTime
    /\ lastCall = [op |-> "constructor", sender |-> Deployer, result |-> OK]
    /\ emitted = NoEvent
    /\ prev = [owner |-> owner, sessionCount |-> sessionCount,
               votingSessions |-> votingSessions]
    /\ audit = [created |-> 1,
                voteCast |-> [s \in SessionIds |-> [a \in Identities |->
                    IF votingSessions[s].hasVoted[a] THEN 1 ELSE 0]],
                owners |-> {Deployer}]
    /\ pc = Idle
    /\ ui = NoPage

NextWinner ==
    \E sender \in Identities, sessionId \in SessionIds :
        getWinnerCall(sender, sessionId)

(* getWinner applied to every roster within the bounds.                    *)
SpecWinner == InitWinner /\ [][NextWinner]_vars

(* ------------------- vote, one storage write at a time ----------------- *)
(* vote up to and including the write of hasVoted (lines 97-107). The      *)
(* nonReentrant modifier refuses to enter while a vote is executing.       *)
voteEnter(sender, sessionId, candidateId) ==
    LET r == voteResult(sender, sessionId, candidateId) IN
    /\ pc = Idle
    /\ ui' = ui
    /\ prev' = Snapshot
    /\ IF r = OK
       THEN /\ votingSessions' =
                 [votingSessions EXCEPT ![sessionId].hasVoted[sender] = TRUE]
            /\ pc' = [line |-> 108, sender |-> sender,
                      sessionId |-> sessionId, candidateId |-> candidateId]
            /\ UNCHANGED <<owner, sessionCount, now, lastCall, emitted>>
       ELSE /\ lastCall' = [op |-> "vote", sender |-> sender,
                            sessionId |-> sessionId,
                            candidateId |-> candidateId, result |-> r]
            /\ pc' = Idle
            /\ Revert
    /\ audit' = audit

(* The rest of vote: the increment of voteCount and the emit (lines        *)
(* 108-110), after which the call has returned.                            *)
voteReturn ==
    /\ pc # Idle
    /\ votingSessions' =
          [votingSessions EXCEPT
              ![pc.sessionId].candidates[pc.candidateId + 1].voteCount = @ + 1]
    /\ emitted' = [type |-> "VoteCast", voter |-> pc.sender,
                   sessionId |-> pc.sessionId, candidateId |-> pc.candidateId]
    /\ lastCall' = [op |-> "vote", sender |-> pc.sender,
                    sessionId |-> pc.sessionId,
                    candidateId |-> pc.candidateId, result |-> OK]
    /\ pc' = Idle
    /\ ui' = ui
    /\ audit' = Recorded(emitted')
    /\ UNCHANGED <<owner, sessionCount, now, prev>>

(* Variant: some statement of vote between its two writes hands control    *)
(* to other code.                                                          *)
NoCallInProgress_callback == TRUE

(* When other code can run: vote makes no external call, so nothing runs   *)
(* between its entry and its return.                                       *)
NoCallInProgress == pc = Idle

(* A caller reads the three views of a session.                            *)
observe(sender, sessionId) ==
    /\ NoCallInProgress
    /\ prev' = Snapshot
    /\ lastCall' = [op |-> "observe", sender |-> sender,
                    sessionId |-> sessionId,
                    candidates |-> getCandidates(sessionId),
                    hasVoted |-> [a \in Identities |->
                                    hasUserVoted(sessionId, a)],
                    winner |-> getWinner(sessionId)]
    /\ emitted' = NoEvent
    /\ UNCHANGED <<owner, sessionCount, votingSessions, now, audit, pc, ui>>

(* Session 0 at the start of its voting window, with a full roster and no  *)
(* vote yet.                                                               *)
InitVoting ==
    /\ owner = Deployer
    /\ sessionCount = 1
    /\ \E roster \in [1..MaxCandidates -> [name : Names, voteCount : {0}]] :
          votingSessions = [s \in SessionIds |->
              IF s = 0
              THEN [id |-> 0, title |-> "T", startTime |-> MaxTime - 2,
                    endTime |-> MaxTime - 1, candidates |-> roster,
                    hasVoted |-> [a \in Identities |-> FALSE],
                    isActive |-> TRUE, creator |-> Deployer]
              ELSE EmptySession]
    /\ now = MaxTime - 2
    /\ lastCall = [op |-> "tick", result |-> OK]
    /\ emitted = NoEvent
    /\ prev = [owner |-> owner, sessionCount |-> sessionCount,
               votingSessions |-> votingSessions]
    /\ audit = [NoAudit EXCEPT !.created = 1]
    /\ pc = Idle
    /\ ui = NoPage

VoteEnterStep ==
    \E sender \in Identities, sessionId \in SessionIds,
       candidateId \in CandidateIds :
        voteEnter(sender, sessionId, candidateId)

ObserveStep ==
    \E sender \in Identities, sessionId \in SessionIds :
        observe(sender, sessionId)

NextVoting ==
    \/ VoteEnterStep
    \/ voteReturn
    \/ ObserveStep
    \/ (NoCallInProgress /\ Tick)

(* Votes and reads during a voting window, vote taken write by write.      *)
SpecVoting == InitVoting /\ [][NextVoting]_vars

(* ---------------- getWinner through the phases of a session ------------ *)
(* The rosters a session of the contract can hold within the bounds.       *)
PhaseRosters ==
    UNION {[1..n -> [name : Names, voteCount : 0..MaxIdentities]] :
              n \in 0..MaxCandidates}

(* Session 0 with a roster, before the clock has reached its startTime.    *)
InitPhases ==
    /\ owner = Deployer
    /\ sessionCount = 1
    /\ \E roster \in PhaseRosters :
          votingSessions = [s \in SessionIds |->
                               IF s = 0 THEN SessionWithRoster(roster)
                               ELSE EmptySession]
    /\ now = 1
    /\ lastCall = [op |-> "constructor", sender |-> Deployer, result |-> OK]
    /\ emitted = NoEvent
    /\ prev = [owner |-> owner, sessionCount |-> sessionCount,
               votingSessions |-> votingSessions]
    /\ audit = [created |-> 1,
                voteCast |-> [s \in SessionIds |-> [a \in Identities |->
                    IF votingSessions[s].hasVoted[a] THEN 1 ELSE 0]],
                owners |-> {Deployer}]
    /\ pc = Idle
    /\ ui = NoPage

NextPhases ==
    \/ NextWinner
    \/ ArchiveStep
    \/ Tick

(* getWinner called before startTime, in the window, after endTime and     *)
(* after archival.                                                         *)
SpecPhases == InitPhases /\ [][NextPhases]_vars

(* --------------------------- VotingPage.jsx ---------------------------- *)
(* Variant: the status is computed without looking at isActive.            *)
SessionStatus_ignoresArchived(session, currentTime) ==
    IF currentTime > session.endTime THEN "Completed"
    ELSE IF currentTime < session.startTime THEN "Not Started"
    ELSE "Active"

(* The status fetchSessions gives a session at the browser's currentTime.  *)
SessionStatus(session, currentTime) ==
    IF session.isActive
    THEN IF currentTime > session.endTime THEN "Completed"
         ELSE IF currentTime < session.startTime THEN "Not Started"
         ELSE "Active"
    ELSE "Inactive"

(* The entry fetchSessions builds for session i from votingSessions(i),    *)
(* getCandidates(i) and hasUserVoted(i, account).                          *)
FetchedSession(i, account, currentTime) ==
    LET session == votingSessions[i]
        candidates == getCandidates(i).value IN
    [id |-> session.id, title |-> session.title,
     startTime |-> session.startTime, endTime |-> session.endTime,
     status |-> SessionStatus(session, currentTime),
     hasVoted |-> hasUserVoted(i, account).value,
     candidates |-> [k \in DOMAIN candidates |->
                       [id |-> k - 1, name |-> candidates[k].name,
                        votes |-> candidates[k].voteCount]]]

(* The filter: only "Not Started" and "Active" sessions are kept.          *)
IsListed(entry) == entry.status = "Not Started" \/ entry.status = "Active"

statusOrder(status) == IF status = "Active" THEN 1 ELSE 2

(* Array.prototype.sort with the comparator of fetchSessions: a stable     *)
(* sort, here by insertion.                                                *)
RECURSIVE insertByStatus(_, _)
insertByStatus(sorted, entry) ==
    IF sorted = <<>> THEN <<entry>>
    ELSE IF statusOrder(Head(sorted).status) - statusOrder(entry.status) <= 0
    THEN <<Head(sorted)>> \o insertByStatus(Tail(sorted), entry)
    ELSE <<entry>> \o sorted

RECURSIVE sortByStatus(_)
sortByStatus(list) ==
    IF list = <<>> THEN <<>>
    ELSE insertByStatus(sortByStatus(SubSeq(list, 1, Len(list) - 1)),
                        list[Len(list)])

(* What fetchSessions passes to setSessions.                               *)
fetchSessions(account, currentTime) ==
    LET fetchedSessions ==
            [k \in 1..sessionCount |->
                FetchedSession(k - 1, account, currentTime)] IN
    sortByStatus(SelectSeq(fetchedSessions, IsListed))

(* The handler useEffect registers for accountsChanged: an arrow function  *)
(* made by that mount.                                                     *)
Handler(instance) == [fn |-> "arrow", instance |-> instance]

(* The function the cleanup hands to removeListener: fetchSessions of that *)
(* mount.                                                                  *)
CleanupTarget(instance) == [fn |-> "fetchSessions", instance |-> instance]

(* The component mounts: useEffect runs connectWallet, which fetches, and  *)
(* registers the accountsChanged handler.                                  *)
mount(account, currentTime) ==
    /\ ~ui.mounted
    /\ ui.instance < MaxMounts
    /\ ui' = [mounted |-> TRUE, instance |-> ui.instance + 1,
              listeners |-> ui.listeners \cup {Handler(ui.instance + 1)},
              walletConnected |-> TRUE,
              sessions |-> fetchSessions(account, currentTime)]
    /\ lastCall' = [op |-> "mount", account |-> account,
                    currentTime |-> currentTime, fetched |-> TRUE]
    /\ UNCHANGED <<owner, sessionCount, votingSessions, now, emitted, prev,
                   audit, pc>>

(* The component unmounts: the cleanup of useEffect runs and the state of  *)
(* the component is gone.                                                  *)
unmount ==
    /\ ui.mounted
    /\ ui' = [ui EXCEPT !.mounted = FALSE,
                        !.listeners = @ \ {CleanupTarget(ui.instance)},
                        !.walletConnected = FALSE,
                        !.sessions = <<>>]
    /\ lastCall' = [op |-> "unmount", fetched |-> FALSE]
    /\ UNCHANGED <<owner, sessionCount, votingSessions, now, emitted, prev,
                   audit, pc>>

(* The wallet emits accountsChanged: every registered handler runs. Only   *)
(* the handler of the mounted component changes what is shown; the state   *)
(* updates of a handler whose component is gone go nowhere.                *)
accountsChanged(accounts, currentTime) ==
    LET live == ui.mounted /\ Handler(ui.instance) \in ui.listeners IN
    /\ ui' = IF ~live THEN ui
             ELSE IF Len(accounts) = 0
             THEN [ui EXCEPT !.walletConnected = FALSE, !.sessions = <<>>]
             ELSE [ui EXCEPT !.sessions =
                                fetchSessions(accounts[1], currentTime)]
    /\ lastCall' = [op |-> "accountsChanged",
                    account |-> IF Len(accounts) = 0 THEN ZeroAddress
                                ELSE accounts[1],
                    currentTime |-> currentTime,
                    ran |-> ui.listeners,
                    fetched |-> live /\ Len(accounts) > 0]
    /\ UNCHANGED <<owner, sessionCount, votingSessions, now, emitted, prev,
                   audit, pc>>

(* The Connect Wallet button, shown while walletConnected is false.        *)
connectWallet(account, currentTime) ==
    /\ ui.mounted
    /\ ~ui.walletConnected
    /\ ui' = [ui EXCEPT !.walletConnected = TRUE,
                        !.sessions = fetchSessions(account, currentTime)]
    /\ lastCall' = [op |-> "connectWallet", account |-> account,
                    currentTime |-> currentTime, fetched |-> TRUE]
    /\ UNCHANGED <<owner, sessionCount, votingSessions, now, emitted, prev,
                   audit, pc>>

(* The Vote buttons the page renders: one per candidate of a listed        *)
(* session whose status is "Active" and whose hasVoted is false.           *)
VoteButtons ==
    IF ~ui.walletConnected THEN {}
    ELSE UNION {{<<ui.sessions[k].id, ui.sessions[k].candidates[c].id>> :
                    c \in DOMAIN ui.sessions[k].candidates} :
                k \in {j \in DOMAIN ui.sessions :
                          /\ ui.sessions[j].status = "Active"
                          /\ ~ui.sessions[j].hasVoted}}

(* What a session of a contract can look like at block time time.         *)
IsPageSession(session, time) ==
    /\ session.startTime < session.endTime
    /\ Voters(session) # {}
       => (Len(session.candidates) > 0 /\ session.startTime <= time)
    /\ ~session.isActive => session.endTime < time

(* The sessions a contract can hold in slot id at block time time: created *)
(* by the deployer, archived only after endTime, voted in only from        *)
(* startTime on, all votes on the first candidate.                         *)
PageSessions(id, time) ==
    {session \in
        {[id |-> id, title |-> "T", startTime |-> st, endTime |-> en,
          candidates |-> [i \in 1..n |->
                             [name |-> IF i = 1 THEN "A" ELSE "B",
                              voteCount |-> IF i = 1 THEN Cardinality(voters)
                                            ELSE 0]],
          hasVoted |-> [a \in Identities |-> a \in voters],
          isActive |-> active, creator |-> Deployer] :
            st \in TimeInputs, en \in TimeInputs \cup {MaxTime},
            n \in {0, MaxCandidates},
            voters \in SUBSET Identities, active \in BOOLEAN} :
        IsPageSession(session, time)}

(* The votingSessions mappings with count sessions at block time time.     *)
RECURSIVE PageTables(_, _)
PageTables(count, time) ==
    IF count = 0 THEN {[s \in SessionIds |-> EmptySession]}
    ELSE {[table EXCEPT ![count - 1] = session] :
             table \in PageTables(count - 1, time),
             session \in PageSessions(count - 1, time)}

(* A contract with some sessions, before the page is opened.               *)
InitPage ==
    /\ owner = Deployer
    /\ \E count \in 0..MaxSessions, time \in 1..MaxTime :
          /\ sessionCount = count
          /\ now = time
          /\ votingSessions \in PageTables(count, time)
    /\ lastCall = [op |-> "tick", result |-> OK]
    /\ emitted = NoEvent
    /\ prev = [owner |-> owner, sessionCount |-> sessionCount,
               votingSessions |-> votingSessions]
    /\ audit = [created |-> sessionCount,
                voteCast |-> [s \in SessionIds |-> [a \in Identities |->
                    IF votingSessions[s].hasVoted[a] THEN 1 ELSE 0]],
                owners |-> {Deployer}]
    /\ pc = Idle
    /\ ui = NoPage

MountStep ==
    \E account \in Identities, currentTime \in 1..MaxTime :
        mount(account, currentTime)

AccountsChangedStep ==
    \E accounts \in {<<>>} \cup {<<a>> : a \in Identities},
       currentTime \in 1..MaxTime :
        accountsChanged(accounts, currentTime)

ConnectWalletStep ==
    \E account \in Identities, currentTime \in 1..MaxTime :
        connectWallet(account, currentTime)

NextPage ==
    \/ MountStep
    \/ unmount
    \/ AccountsChangedStep
    \/ ConnectWalletStep

(* VotingPage over a contract that does not change meanwhile.              *)
SpecPage == InitPage /\ [][NextPage]_vars

(* The call that produced the current state.                              *)
IsVoteCall(call) == call.op = "vote"

IsCreateCall(call) == call.op = "createVotingSession"

IsArchiveCall(call) == call.op = "archiveSession"

(* The session slot as the last call found it.                             *)
Before(sessionId) == prev.votingSessions[sessionId]

InWindow(session) == session.startTime <= now /\ now <= session.endTime

(* ------------------------------- C1 ------------------------------------ *)
(* C1: for every (session, identity) pair vote succeeds at most once: a    *)
(* vote by an identity whose hasVoted flag is already set for the session  *)
(* does not succeed and leaves the tallies and the voter set of the        *)
(* session as they were.                                                   *)
C1_VoteAtMostOnce ==
    ( /\ IsVoteCall(lastCall)
      /\ Before(lastCall.sessionId).hasVoted[lastCall.sender] )
    => /\ lastCall.result # OK
       /\ votingSessions[lastCall.sessionId].candidates
             = Before(lastCall.sessionId).candidates
       /\ votingSessions[lastCall.sessionId].hasVoted
             = Before(lastCall.sessionId).hasVoted

(* A second vote by an identity that had voted was attempted and refused.  *)
C1_Witness ==
    /\ IsVoteCall(lastCall)
    /\ Before(lastCall.sessionId).hasVoted[lastCall.sender]
    /\ lastCall.result = AlreadyVoted
    /\ SumVotes(votingSessions[lastCall.sessionId].candidates) >= 1

(* ------------------------------- C2 ------------------------------------ *)
(* C2: in every reachable state, for every session slot, the sum of the    *)
(* candidates' voteCount equals the number of identities with hasVoted set.*)
C2_SumEqualsVoters ==
    \A s \in SessionIds :
        SumVotes(votingSessions[s].candidates)
            = Cardinality(Voters(votingSessions[s]))

(* Two identities have voted in one session, for different candidates.     *)
C2_Witness ==
    \E s \in SessionIds :
        /\ Cardinality(Voters(votingSessions[s])) = 2
        /\ Len(votingSessions[s].candidates) = 2
        /\ votingSessions[s].candidates[1].voteCount = 1
        /\ votingSessions[s].candidates[2].voteCount = 1

(* ------------------------------- C3 ------------------------------------ *)
(* C3: for a created session, a sender that has not voted and a valid      *)
(* candidate index, vote succeeds iff startTime <= now <= endTime, and     *)
(* outside that interval it reverts with VotingNotActive; the sender's     *)
(* identity and isActive play no part.                                     *)
C3_VoteExactlyInWindow ==
    ( /\ IsVoteCall(lastCall)
      /\ lastCall.sessionId < prev.sessionCount
      /\ ~Before(lastCall.sessionId).hasVoted[lastCall.sender]
      /\ lastCall.candidateId < Len(Before(lastCall.sessionId).candidates) )
    => IF InWindow(Before(lastCall.sessionId))
       THEN lastCall.result = OK
       ELSE lastCall.result = VotingNotActive

(* A vote by an identity other than the creator succeeded at now = endTime.*)
C3_Witness ==
    /\ IsVoteCall(lastCall)
    /\ lastCall.result = OK
    /\ lastCall.sessionId < prev.sessionCount
    /\ now = votingSessions[lastCall.sessionId].endTime
    /\ lastCall.sender # votingSessions[lastCall.sessionId].creator

(* ------------------------------- C4 ------------------------------------ *)
(* C4 as stated: a vote by an identity that has already voted in the       *)
(* session always reverts with AlreadyVoted, at every clock value and for  *)
(* every candidate index.                                                  *)
C4_AlwaysAlreadyVoted ==
    ( /\ IsVoteCall(lastCall)
      /\ Before(lastCall.sessionId).hasVoted[lastCall.sender] )
    => lastCall.result = AlreadyVoted

(* C4 amended: a vote by an identity that has already voted in the session *)
(* reverts with AlreadyVoted whenever startTime <= now <= endTime, for     *)
(* every candidate index, valid or out of range; outside the window it     *)
(* reverts with VotingNotActive.                                           *)
C4_AlreadyVotedInWindow ==
    ( /\ IsVoteCall(lastCall)
      /\ Before(lastCall.sessionId).hasVoted[lastCall.sender] )
    => IF InWindow(Before(lastCall.sessionId))
       THEN lastCall.result = AlreadyVoted
       ELSE lastCall.result = VotingNotActive

(* A second vote with an out-of-range index was refused as AlreadyVoted.   *)
C4_Witness ==
    /\ IsVoteCall(lastCall)
    /\ Before(lastCall.sessionId).hasVoted[lastCall.sender]
    /\ lastCall.result = AlreadyVoted
    /\ lastCall.candidateId >= Len(Before(lastCall.sessionId).candidates)

(* ------------------------------- C5 ------------------------------------ *)
(* C5: createVotingSession with endTime <= startTime (equality included)   *)
(* creates nothing and, for a sender that passes onlyOwner, reverts with   *)
(* InvalidTimeRange; every created session has endTime > startTime.        *)
C5_InvalidTimeRange ==
    /\ ( /\ IsCreateCall(lastCall)
         /\ lastCall.endTime <= lastCall.startTime )
       => /\ lastCall.result # OK
          /\ (lastCall.sender = prev.owner
                 => lastCall.result = InvalidTimeRange)
          /\ sessionCount = prev.sessionCount
          /\ votingSessions = prev.votingSessions
    /\ \A s \in SessionIds :
          s < sessionCount
             => votingSessions[s].endTime > votingSessions[s].startTime

(* The owner asked for a session with endTime = startTime and was refused. *)
C5_Witness ==
    /\ IsCreateCall(lastCall)
    /\ lastCall.endTime = lastCall.startTime
    /\ lastCall.sender = prev.owner
    /\ lastCall.result = InvalidTimeRange

(* ------------------------------- C6 ------------------------------------ *)
(* C6: createVotingSession by a sender other than the owner reverts with   *)
(* the onlyOwner error, whether or not the time range is valid, and leaves *)
(* sessionCount and the session table unchanged; sessionCount grows only   *)
(* in a createVotingSession call made by the owner.                        *)
C6_OnlyOwnerCreates ==
    /\ ( /\ IsCreateCall(lastCall)
         /\ lastCall.sender # prev.owner )
       => /\ lastCall.result = UnauthorizedOwner
          /\ sessionCount = prev.sessionCount
          /\ votingSessions = prev.votingSessions
    /\ sessionCount # prev.sessionCount
       => /\ IsCreateCall(lastCall)
          /\ lastCall.sender = prev.owner
          /\ sessionCount > prev.sessionCount

(* A non-owner asked for a session with an invalid time range.             *)
C6_Witness ==
    /\ IsCreateCall(lastCall)
    /\ lastCall.sender # prev.owner
    /\ lastCall.endTime <= lastCall.startTime
    /\ lastCall.result = UnauthorizedOwner

(* ------------------------------- C7 ------------------------------------ *)
(* C7: a successful createVotingSession stores, in the slot numbered by    *)
(* the old sessionCount, a session with that id, the given title and       *)
(* times, isActive = TRUE, creator = sender, no candidates and no voters,  *)
(* leaves the other slots alone and adds exactly 1 to sessionCount; the    *)
(* ids of the created sessions are 0, 1, 2, ... without gaps.              *)
C7_CreateStoresSession ==
    /\ ( /\ IsCreateCall(lastCall)
         /\ lastCall.result = OK )
       => /\ sessionCount = prev.sessionCount + 1
          /\ votingSessions[prev.sessionCount] =
                [id |-> prev.sessionCount,
                 title |-> lastCall.title,
                 startTime |-> lastCall.startTime,
                 endTime |-> lastCall.endTime,
                 candidates |-> <<>>,
                 hasVoted |-> [a \in Identities |-> FALSE],
                 isActive |-> TRUE,
                 creator |-> lastCall.sender]
          /\ \A s \in SessionIds \ {prev.sessionCount} :
                votingSessions[s] = Before(s)
    /\ \A s \in SessionIds :
          s < sessionCount => votingSessions[s].id = s

(* The second session was just created, by the owner, next to the first.   *)
C7_Witness ==
    /\ IsCreateCall(lastCall)
    /\ lastCall.result = OK
    /\ prev.sessionCount = 1
    /\ sessionCount = 2
    /\ votingSessions[1].id = 1
    /\ votingSessions[0].id = 0

(* ------------------------------- C8 ------------------------------------ *)
(* C8: a session exists iff its id is below sessionCount: for every        *)
(* sessionId >= sessionCount getCandidates, getWinner, hasUserVoted,       *)
(* getSessionCreator and addCandidate fail with NotFound, and for every    *)
(* sessionId < sessionCount none of them does.                             *)
C8_ExistsIffBelowCount ==
    \A s \in SessionIds :
        LET outcomes == {getCandidates(s).result, getWinner(s).result,
                         getSessionCreator(s).result}
                        \cup {hasUserVoted(s, a).result : a \in Identities}
                        \cup {addCandidateResult(a, s) : a \in Identities}
        IN IF s >= sessionCount THEN outcomes = {NotFound}
           ELSE NotFound \notin outcomes

(* ------------------------------- C9 ------------------------------------ *)
(* C9: archiveSession on a sessionId that is not below sessionCount        *)
(* reverts with NotFound at every clock value, changes no state and emits  *)
(* no SessionArchived record.                                              *)
C9_ArchiveAbsentNotFound ==
    ( /\ IsArchiveCall(lastCall)
      /\ lastCall.sessionId >= prev.sessionCount )
    => /\ lastCall.result = NotFound
       /\ votingSessions = prev.votingSessions
       /\ sessionCount = prev.sessionCount
       /\ emitted = NoEvent

(* ------------------------------- C10 ----------------------------------- *)
(* C10: vote on a sessionId for which no session has been created reverts  *)
(* with NotFound, not with VotingNotActive. Stated for the slots that the  *)
(* sessionExists check itself rejects, so that only the order of the two   *)
(* checks decides the outcome.                                             *)
C10_VoteAbsentNotFound ==
    ( /\ IsVoteCall(lastCall)
      /\ lastCall.sessionId >= prev.sessionCount
      /\ Before(lastCall.sessionId).id # lastCall.sessionId )
    => lastCall.result = NotFound

IsAddCall(call) == call.op = "addCandidate"

(* The names of a candidate list, in order.                                *)
CandidateNames(candidates) ==
    [i \in 1..Len(candidates) |-> candidates[i].name]

(* ------------------------------- C11 ----------------------------------- *)
(* C11: addCandidate succeeds only on a created session, for the session's *)
(* creator, while isActive holds and now < startTime; a success appends    *)
(* exactly one Candidate(name, 0) at the end of that session's list and    *)
(* leaves the earlier entries as they were. The names and the length of a  *)
(* session's list change in no other call and for no other sender.         *)
C11_AddCandidateAppends ==
    /\ ( /\ IsAddCall(lastCall)
         /\ lastCall.result = OK )
       => /\ lastCall.sessionId < prev.sessionCount
          /\ lastCall.sender = Before(lastCall.sessionId).creator
          /\ Before(lastCall.sessionId).isActive
          /\ now < Before(lastCall.sessionId).startTime
          /\ votingSessions[lastCall.sessionId].candidates =
                Append(Before(lastCall.sessionId).candidates,
                       [name |-> lastCall.name, voteCount |-> 0])
    /\ \A s \in SessionIds :
          CandidateNames(votingSessions[s].candidates)
              # CandidateNames(Before(s).candidates)
          => /\ IsAddCall(lastCall)
             /\ lastCall.result = OK
             /\ lastCall.sessionId = s
             /\ lastCall.sender = Before(s).creator

(* The creator added "B" behind "A".                                       *)
C11_Witness ==
    /\ IsAddCall(lastCall)
    /\ lastCall.result = OK
    /\ lastCall.name = "B"
    /\ CandidateNames(votingSessions[lastCall.sessionId].candidates)
          = <<"A", "B">>

(* ------------------------------- C12 ----------------------------------- *)
(* C12: a call made at a time now >= startTime of a created session leaves *)
(* the length, names and order of that session's candidates, and its       *)
(* startTime, as they were; the clock never goes back, so from the first   *)
(* such call on the sequence is frozen and only voteCount may change.      *)
C12_FrozenAfterStart ==
    \A s \in SessionIds :
        ( /\ s < prev.sessionCount
          /\ now >= Before(s).startTime )
        => /\ CandidateNames(votingSessions[s].candidates)
                 = CandidateNames(Before(s).candidates)
           /\ votingSessions[s].startTime = Before(s).startTime

(* The creator asked for one more candidate after the window had opened,   *)
(* on a session that already has votes.                                    *)
C12_Witness ==
    /\ IsAddCall(lastCall)
    /\ lastCall.sessionId < prev.sessionCount
    /\ lastCall.sender = Before(lastCall.sessionId).creator
    /\ now >= Before(lastCall.sessionId).startTime
    /\ SumVotes(votingSessions[lastCall.sessionId].candidates) >= 1

(* ------------------------------- C13 ----------------------------------- *)
(* C13: addCandidate by the creator on a created session whose isActive is *)
(* TRUE reverts with VotingAlreadyOpen whenever now >= startTime, also at  *)
(* now = startTime, and leaves the candidate list unchanged.               *)
C13_VotingAlreadyOpen ==
    ( /\ IsAddCall(lastCall)
      /\ lastCall.sessionId < prev.sessionCount
      /\ lastCall.sender = Before(lastCall.sessionId).creator
      /\ Before(lastCall.sessionId).isActive
      /\ now >= Before(lastCall.sessionId).startTime )
    => /\ lastCall.result = VotingAlreadyOpen
       /\ votingSessions[lastCall.sessionId].candidates
             = Before(lastCall.sessionId).candidates

(* The creator was refused at now = startTime exactly.                     *)
C13_Witness ==
    /\ IsAddCall(lastCall)
    /\ lastCall.sessionId < prev.sessionCount
    /\ lastCall.sender = Before(lastCall.sessionId).creator
    /\ Before(lastCall.sessionId).isActive
    /\ now = Before(lastCall.sessionId).startTime
    /\ lastCall.result = VotingAlreadyOpen

(* ------------------------------- C14 ----------------------------------- *)
(* C14 as stated: addCandidate by the creator on a created session at any  *)
(* time now > endTime reverts with SessionEnded.                           *)
C14_SessionEndedAfterEnd ==
    ( /\ IsAddCall(lastCall)
      /\ lastCall.sessionId < prev.sessionCount
      /\ lastCall.sender = Before(lastCall.sessionId).creator
      /\ now > Before(lastCall.sessionId).endTime )
    => lastCall.result = SessionEnded

(* C14 amended: addCandidate by the creator on a created session at a time *)
(* now > endTime reverts with SessionEnded if the session has been         *)
(* archived (isActive is FALSE) and with VotingAlreadyOpen if it has not.  *)
C14_SessionEndedIfArchived ==
    ( /\ IsAddCall(lastCall)
      /\ lastCall.sessionId < prev.sessionCount
      /\ lastCall.sender = Before(lastCall.sessionId).creator
      /\ now > Before(lastCall.sessionId).endTime )
    => IF Before(lastCall.sessionId).isActive
       THEN lastCall.result = VotingAlreadyOpen
       ELSE lastCall.result = SessionEnded

(* The creator was refused with SessionEnded on an archived session.       *)
C14_Witness ==
    /\ IsAddCall(lastCall)
    /\ lastCall.sessionId < prev.sessionCount
    /\ lastCall.sender = Before(lastCall.sessionId).creator
    /\ now > Before(lastCall.sessionId).endTime
    /\ ~Before(lastCall.sessionId).isActive
    /\ lastCall.result = SessionEnded

(* ------------------------------- C15 ----------------------------------- *)
(* C15: on a created session archiveSession reverts with                   *)
(* SessionStillActive whenever now <= endTime, also at now = endTime, and  *)
(* succeeds for every sender whenever now > endTime, leaving isActive      *)
(* FALSE; in every state with now > endTime the call is enabled.           *)
C15_ArchiveAfterEnd ==
    /\ ( /\ IsArchiveCall(lastCall)
         /\ lastCall.sessionId < prev.sessionCount )
       => IF now <= Before(lastCall.sessionId).endTime
          THEN /\ lastCall.result = SessionStillActive
               /\ votingSessions = prev.votingSessions
          ELSE /\ lastCall.result = OK
               /\ ~votingSessions[lastCall.sessionId].isActive
    /\ \A s \in SessionIds :
          s < sessionCount
          => archiveSessionResult(s)
                = IF now > votingSessions[s].endTime
                  THEN OK ELSE SessionStillActive

(* A sender other than the creator archived a session that was active.     *)
C15_Witness ==
    /\ IsArchiveCall(lastCall)
    /\ lastCall.sessionId < prev.sessionCount
    /\ lastCall.result = OK
    /\ lastCall.sender # Before(lastCall.sessionId).creator
    /\ Before(lastCall.sessionId).isActive
    /\ ~votingSessions[lastCall.sessionId].isActive

C17_IsActiveMonotonic ==
    /\ ( /\ IsCreateCall(lastCall)
         /\ lastCall.result = OK )
       => votingSessions[prev.sessionCount].isActive
    /\ \A s \in SessionIds :
          ( /\ s < prev.sessionCount
            /\ ~Before(s).isActive )
          => ~votingSessions[s].isActive

(* A second session was created while the first one, already archived,     *)
(* stayed archived.                                                        *)
C17_Witness ==
    /\ IsCreateCall(lastCall)
    /\ lastCall.result = OK
    /\ prev.sessionCount = 1
    /\ ~Before(0).isActive
    /\ ~votingSessions[0].isActive
    /\ votingSessions[1].isActive

IsGetWinnerCall(call) == call.op = "getWinner"

(* The largest voteCount of a non-empty candidate list.                    *)
MaxVotes(candidates) ==
    CHOOSE m \in 0..MaxVoteCount + 1 :
        /\ \E i \in 1..Len(candidates) : candidates[i].voteCount = m
        /\ \A i \in 1..Len(candidates) : candidates[i].voteCount <= m

(* The positions that hold the largest voteCount.                          *)
Leaders(candidates) ==
    {i \in 1..Len(candidates) :
        candidates[i].voteCount = MaxVotes(candidates)}

(* The candidate list a getWinner call was made on.                        *)
Queried == votingSessions[lastCall.sessionId].candidates

(* ------------------------------- C18 ----------------------------------- *)
(* C18: on a non-empty roster whose largest voteCount is positive          *)
(* getWinner returns ("", TRUE) iff at least two candidates hold the       *)
(* largest voteCount, and otherwise (name of the one candidate that holds  *)
(* it, FALSE); it never returns a non-empty name with isTie = TRUE.        *)
C18_WinnerOrTie ==
    ( /\ IsGetWinnerCall(lastCall)
      /\ sessionExists(lastCall.sessionId)
      /\ Len(Queried) > 0
      /\ MaxVotes(Queried) > 0 )
    => /\ lastCall.ret.result = OK
       /\ IF Cardinality(Leaders(Queried)) >= 2
          THEN lastCall.ret.value = [winnerName |-> "", isTie |-> TRUE]
          ELSE \E i \in Leaders(Queried) :
                  lastCall.ret.value =
                     [winnerName |-> Queried[i].name, isTie |-> FALSE]
       /\ ~(lastCall.ret.value.isTie /\ lastCall.ret.value.winnerName # "")

(* getWinner was applied to three candidates with two votes each.          *)
C18_Witness ==
    /\ IsGetWinnerCall(lastCall)
    /\ sessionExists(lastCall.sessionId)
    /\ Len(Queried) = 3
    /\ \A i \in 1..3 : Queried[i].voteCount = 2
    /\ lastCall.ret.value = [winnerName |-> "", isTie |-> TRUE]

(* ------------------------------- C19 ----------------------------------- *)
(* C19 as stated: on a non-empty roster in which every candidate has zero  *)
(* votes getWinner returns ("", TRUE), whatever the size of the roster.    *)
C19_AllZeroIsTie ==
    ( /\ IsGetWinnerCall(lastCall)
      /\ sessionExists(lastCall.sessionId)
      /\ Len(Queried) > 0
      /\ \A i \in 1..Len(Queried) : Queried[i].voteCount = 0 )
    => /\ lastCall.ret.result = OK
       /\ lastCall.ret.value = [winnerName |-> "", isTie |-> TRUE]

(* C19 amended: on a roster of two or more candidates that all have zero   *)
(* votes getWinner returns ("", TRUE); on a single candidate with zero     *)
(* votes it returns ("", FALSE).                                           *)
C19_AllZeroTieFromTwo ==
    ( /\ IsGetWinnerCall(lastCall)
      /\ sessionExists(lastCall.sessionId)
      /\ Len(Queried) > 0
      /\ \A i \in 1..Len(Queried) : Queried[i].voteCount = 0 )
    => /\ lastCall.ret.result = OK
       /\ lastCall.ret.value =
             [winnerName |-> "", isTie |-> Len(Queried) >= 2]

(* getWinner was applied to two candidates without votes.                  *)
C19_Witness ==
    /\ IsGetWinnerCall(lastCall)
    /\ sessionExists(lastCall.sessionId)
    /\ Len(Queried) = 2
    /\ \A i \in 1..2 : Queried[i].voteCount = 0
    /\ lastCall.ret.value = [winnerName |-> "", isTie |-> TRUE]

(* ------------------------------- C20 ----------------------------------- *)
(* C20: getWinner on a created session reverts with NoCandidates when the  *)
(* candidate list is empty and does not revert when it holds at least one  *)
(* candidate.                                                              *)
C20_NoCandidates ==
    ( /\ IsGetWinnerCall(lastCall)
      /\ lastCall.sessionId < sessionCount )
    => IF Len(Queried) = 0
       THEN lastCall.ret.result = NoCandidates
       ELSE lastCall.ret.result = OK

(* getWinner was applied to a created session without candidates.          *)
C20_Witness ==
    /\ IsGetWinnerCall(lastCall)
    /\ lastCall.sessionId < sessionCount
    /\ Len(Queried) = 0
    /\ lastCall.ret.result = NoCandidates

(* What the four views return for a session record that exists.            *)
ViewsOf(session) ==
    [candidates |-> session.candidates,
     creator |-> session.creator,
     hasVoted |-> session.hasVoted,
     winner |-> IF Len(session.candidates) = 0
                THEN [result |-> NoCandidates]
                ELSE [result |-> OK,
                      value |-> winnerScan(session.candidates, 1, 0, 0, "")]]

(* The calls that write storage.                                           *)
IsMutatingCall(call) ==
    call.op \in {"createVotingSession", "addCandidate", "vote",
                 "archiveSession"}

(* ------------------------------- C21 ----------------------------------- *)
(* C21: a successful archiveSession writes isActive of its session and     *)
(* nothing else: getCandidates, getSessionCreator, hasUserVoted and        *)
(* getWinner return right after it what they returned right before it.     *)
C21_ArchiveKeepsViews ==
    (IsArchiveCall(lastCall) /\ lastCall.result = OK)
    => /\ votingSessions =
             [prev.votingSessions EXCEPT ![lastCall.sessionId].isActive = FALSE]
       /\ sessionCount = prev.sessionCount
       /\ owner = prev.owner
       /\ ViewsOf(votingSessions[lastCall.sessionId]) =
             ViewsOf(Before(lastCall.sessionId))
       /\ getCandidates(lastCall.sessionId).value =
             Before(lastCall.sessionId).candidates
       /\ getSessionCreator(lastCall.sessionId).value =
             Before(lastCall.sessionId).creator
       /\ \A a \in Identities :
             hasUserVoted(lastCall.sessionId, a).value =
                Before(lastCall.sessionId).hasVoted[a]
       /\ getWinner(lastCall.sessionId) =
             ViewsOf(Before(lastCall.sessionId)).winner

(* A session with a vote on its roster has just been archived.             *)
C21_Witness ==
    /\ IsArchiveCall(lastCall)
    /\ lastCall.result = OK
    /\ Before(lastCall.sessionId).isActive
    /\ SumVotes(votingSessions[lastCall.sessionId].candidates) > 0
    /\ getWinner(lastCall.sessionId).result = OK

(* ------------------------------- C22 ----------------------------------- *)
(* C22: a call of createVotingSession, addCandidate, vote or archiveSession *)
(* that fails leaves sessionCount, the owner and every session (fields,    *)
(* candidates, tallies, hasVoted) as they were before the call.            *)
C22_FailureChangesNothing ==
    (IsMutatingCall(lastCall) /\ lastCall.result # OK)
    => Snapshot = prev

(* A vote for a candidate index out of range has just failed in a session  *)
(* that already holds a vote.                                              *)
C22_Witness ==
    /\ IsVoteCall(lastCall)
    /\ lastCall.result = InvalidCandidate
    /\ SumVotes(votingSessions[lastCall.sessionId].candidates) > 0
    /\ Snapshot = prev

(* ------------------------------- C23 ----------------------------------- *)
(* C23: every successful mutating call emits exactly one event, of the     *)
(* type of the call and with the ids of the call, and a failed call emits  *)
(* none; the VoteCast events of a session are as many as its voters (one   *)
(* per voter) and the VotingSessionCreated events as many as sessionCount. *)
C23_OneEventPerSuccess ==
    /\ IsMutatingCall(lastCall)
       => IF lastCall.result # OK THEN emitted = NoEvent
          ELSE IF IsCreateCall(lastCall)
          THEN emitted = [type |-> "VotingSessionCreated",
                          creator |-> lastCall.sender,
                          sessionId |-> prev.sessionCount,
                          title |-> lastCall.title,
                          startTime |-> lastCall.startTime,
                          endTime |-> lastCall.endTime]
          ELSE IF IsAddCall(lastCall)
          THEN emitted = [type |-> "CandidateAdded",
                          sessionId |-> lastCall.sessionId,
                          candidateName |-> lastCall.name]
          ELSE IF IsVoteCall(lastCall)
          THEN emitted = [type |-> "VoteCast", voter |-> lastCall.sender,
                          sessionId |-> lastCall.sessionId,
                          candidateId |-> lastCall.candidateId]
          ELSE emitted = [type |-> "SessionArchived",
                          sessionId |-> lastCall.sessionId]
    /\ audit.created = sessionCount
    /\ \A s \in SessionIds : \A a \in Identities :
          audit.voteCast[s][a] = IF votingSessions[s].hasVoted[a] THEN 1 ELSE 0

(* A session that was already archived has been archived again, which      *)
(* emitted a second SessionArchived.                                       *)
C23_Witness ==
    /\ IsArchiveCall(lastCall)
    /\ lastCall.result = OK
    /\ ~Before(lastCall.sessionId).isActive
    /\ lastCall.sessionId < sessionCount
    /\ emitted = [type |-> "SessionArchived", sessionId |-> lastCall.sessionId]
    /\ audit.created = sessionCount
    /\ \E a \in Identities : audit.voteCast[lastCall.sessionId][a] = 1

IsObserveCall(call) == call.op = "observe"

(* ------------------------------- C24 ----------------------------------- *)
(* C24: the write of hasVoted and the increment of voteCount in vote are   *)
(* one step for every observer: whatever reads hasUserVoted and            *)
(* getCandidates of a session finds as many voters as votes, and whenever  *)
(* a call can begin every session has as many voters as votes.             *)
C24_VoteIsAtomic ==
    /\ (IsObserveCall(lastCall) /\ lastCall.candidates.result = OK)
       => Cardinality({a \in Identities : lastCall.hasVoted[a].value}) =
             SumVotes(lastCall.candidates.value)
    /\ NoCallInProgress
       => \A s \in SessionIds :
             Cardinality(Voters(votingSessions[s])) =
                SumVotes(votingSessions[s].candidates)

(* A read that followed a vote: it saw one voter and one vote.             *)
C24_Witness ==
    /\ IsObserveCall(lastCall)
    /\ lastCall.candidates.result = OK
    /\ Cardinality({a \in Identities : lastCall.hasVoted[a].value}) = 1
    /\ SumVotes(lastCall.candidates.value) = 1
    /\ audit.voteCast[lastCall.sessionId][Deployer] = 1

(* ------------------------------- C25 ----------------------------------- *)
(* C25: for a created session hasUserVoted(session, identity) is true iff  *)
(* the identity has made a successful vote on that session; it is false    *)
(* for every identity right after the creation, and a failed vote leaves   *)
(* it as it was.                                                           *)
C25_HasVotedIffVoted ==
    /\ \A s \in SessionIds : \A a \in Identities :
          Created(s)
          => /\ hasUserVoted(s, a).result = OK
             /\ hasUserVoted(s, a).value = (audit.voteCast[s][a] > 0)
    /\ (IsCreateCall(lastCall) /\ lastCall.result = OK)
       => \A a \in Identities :
             hasUserVoted(prev.sessionCount, a) =
                [result |-> OK, value |-> FALSE]
    /\ (IsVoteCall(lastCall) /\ lastCall.result # OK)
       => \A s \in SessionIds : \A a \in Identities :
             votingSessions[s].hasVoted[a] = prev.votingSessions[s].hasVoted[a]

(* A vote has just failed in a session in which one identity has voted and *)
(* the caller has not.                                                     *)
C25_Witness ==
    /\ IsVoteCall(lastCall)
    /\ lastCall.result = InvalidCandidate
    /\ Created(lastCall.sessionId)
    /\ hasUserVoted(lastCall.sessionId, lastCall.sender).value = FALSE
    /\ \E a \in Identities : hasUserVoted(lastCall.sessionId, a).value = TRUE

(* ------------------------------- C26 ----------------------------------- *)
(* C26: inside the voting window a vote by an identity that has not voted, *)
(* with candidateId >= candidates.length (any candidateId on an empty      *)
(* roster), fails with InvalidCandidate, records no voter and changes no   *)
(* tally, so the same identity can still vote for a candidate there is.    *)
C26_InvalidCandidate ==
    ( /\ IsVoteCall(lastCall)
      /\ InWindow(Before(lastCall.sessionId))
      /\ ~Before(lastCall.sessionId).hasVoted[lastCall.sender]
      /\ lastCall.candidateId >= Len(Before(lastCall.sessionId).candidates) )
    => /\ lastCall.result = InvalidCandidate
       /\ Snapshot = prev
       /\ ~votingSessions[lastCall.sessionId].hasVoted[lastCall.sender]
       /\ Len(votingSessions[lastCall.sessionId].candidates) > 0
          => voteResult(lastCall.sender, lastCall.sessionId, 0) = OK

(* A vote for the index just past a non-empty roster has failed.           *)
C26_Witness ==
    /\ IsVoteCall(lastCall)
    /\ InWindow(Before(lastCall.sessionId))
    /\ ~Before(lastCall.sessionId).hasVoted[lastCall.sender]
    /\ Len(Before(lastCall.sessionId).candidates) > 0
    /\ lastCall.candidateId = Len(Before(lastCall.sessionId).candidates)
    /\ lastCall.result = InvalidCandidate
    /\ voteResult(lastCall.sender, lastCall.sessionId, 0) = OK

(* ------------------------------- C27 ----------------------------------- *)
(* C27: with a clock that never goes back, every vote on a created session *)
(* that has been archived fails with VotingNotActive, and no call changes  *)
(* the candidates, tallies, voters or winner of an archived session.       *)
C27_ArchivedIsFinal ==
    /\ ( /\ IsVoteCall(lastCall)
         /\ lastCall.sessionId < prev.sessionCount
         /\ ~Before(lastCall.sessionId).isActive )
       => lastCall.result = VotingNotActive
    /\ \A s \in SessionIds :
          (s < prev.sessionCount /\ ~Before(s).isActive)
          => ViewsOf(votingSessions[s]) = ViewsOf(Before(s))

(* A vote on an archived session that holds a vote has just failed.        *)
C27_Witness ==
    /\ IsVoteCall(lastCall)
    /\ lastCall.sessionId < prev.sessionCount
    /\ ~Before(lastCall.sessionId).isActive
    /\ ~Before(lastCall.sessionId).hasVoted[lastCall.sender]
    /\ lastCall.candidateId < Len(Before(lastCall.sessionId).candidates)
    /\ SumVotes(Before(lastCall.sessionId).candidates) > 0
    /\ lastCall.result = VotingNotActive

(* ------------------------------- C28 ----------------------------------- *)
(* C28 as stated: the owner is the deployer in every reachable state,      *)
(* whatever function of the contract, inherited ones included, is called.  *)
C28_OwnerIsDeployer == owner = Deployer

(* ------------------------------- C29 ----------------------------------- *)
(* C29: id, title, startTime, endTime and creator of a created session     *)
(* keep the values of its creation through every later call.               *)
C29_CreatedFieldsFixed ==
    \A s \in SessionIds :
        s < prev.sessionCount
        => /\ votingSessions[s].id = s
           /\ votingSessions[s].id = Before(s).id
           /\ votingSessions[s].title = Before(s).title
           /\ votingSessions[s].startTime = Before(s).startTime
           /\ votingSessions[s].endTime = Before(s).endTime
           /\ votingSessions[s].creator = Before(s).creator

(* A voted-in session has been archived after a second session was         *)
(* created.                                                                *)
C29_Witness ==
    /\ IsArchiveCall(lastCall)
    /\ lastCall.result = OK
    /\ lastCall.sessionId = 0
    /\ prev.sessionCount = 2
    /\ SumVotes(votingSessions[0].candidates) > 0
    /\ votingSessions[0].endTime < now
    /\ votingSessions[0].creator = Deployer

(* ------------------------------- C30 ----------------------------------- *)
(* C30: the voters of a session only grow; a candidate enters its roster   *)
(* with voteCount 0, and a voteCount never decreases and changes only by   *)
(* +1, in a step that adds exactly one identity to the voters of the same  *)
(* session.                                                                *)
C30_TalliesOnlyGrow ==
    \A s \in SessionIds :
        LET old == Before(s)
            new == votingSessions[s] IN
        /\ Voters(old) \subseteq Voters(new)
        /\ Len(old.candidates) <= Len(new.candidates)
        /\ \A i \in 1..Len(new.candidates) :
              IF i > Len(old.candidates)
              THEN new.candidates[i].voteCount = 0
              ELSE \/ new.candidates[i].voteCount = old.candidates[i].voteCount
                   \/ /\ new.candidates[i].voteCount =
                            old.candidates[i].voteCount + 1
                      /\ Cardinality(Voters(new) \ Voters(old)) = 1

(* A second identity has just voted for a candidate that had one vote.     *)
C30_Witness ==
    /\ IsVoteCall(lastCall)
    /\ lastCall.result = OK
    /\ Before(lastCall.sessionId).candidates[lastCall.candidateId + 1].voteCount = 1
    /\ votingSessions[lastCall.sessionId].candidates[lastCall.candidateId + 1].voteCount = 2
    /\ Cardinality(Voters(votingSessions[lastCall.sessionId])) = 2

(* ------------------------------- C31 ----------------------------------- *)
(* C31: sessionCount is 0 after construction, never decreases, goes up by  *)
(* exactly 1 in each successful createVotingSession and is left as it was  *)
(* by every other call.                                                    *)
C31_SessionCountSteps ==
    /\ lastCall.op = "constructor" => sessionCount = 0
    /\ sessionCount >= prev.sessionCount
    /\ IF IsCreateCall(lastCall) /\ lastCall.result = OK
       THEN sessionCount = prev.sessionCount + 1
       ELSE sessionCount = prev.sessionCount

(* The second session has just been created.                               *)
C31_Witness ==
    /\ IsCreateCall(lastCall)
    /\ lastCall.result = OK
    /\ prev.sessionCount = 1
    /\ sessionCount = 2

(* ------------------------------- C32 ----------------------------------- *)
(* C32 as stated: a failing addCandidate reports the first violated        *)
(* precondition in the order NotFound (no session of that id has been      *)
(* created), Unauthorized, SessionEnded, VotingAlreadyOpen.                *)
C32_AddCandidateFirstFailure ==
    IsAddCall(lastCall)
    => LET session == Before(lastCall.sessionId) IN
       lastCall.result =
          IF ~(lastCall.sessionId < prev.sessionCount) THEN NotFound
          ELSE IF lastCall.sender # session.creator THEN UnauthorizedCreator
          ELSE IF ~session.isActive THEN SessionEnded
          ELSE IF now >= session.startTime THEN VotingAlreadyOpen
          ELSE OK

(* ------------------------------- C33 ----------------------------------- *)
(* C33: with a clock that never goes back, a session whose isActive is     *)
(* false has endTime < now and so startTime < now: no archived session is  *)
(* before its startTime, and the require on isActive in addCandidate       *)
(* rejects no call that the require on startTime would accept.             *)
C33_InactiveIsPast ==
    \A s \in SessionIds :
        /\ (Created(s) /\ ~votingSessions[s].isActive)
           => /\ votingSessions[s].endTime < now
              /\ votingSessions[s].startTime < now
        /\ \A sender \in Identities :
              ( /\ sessionExists(s)
                /\ onlySessionCreator(sender, s)
                /\ now < votingSessions[s].startTime )
              => votingSessions[s].isActive

(* The creator's addCandidate on an archived session has just failed, at a *)
(* time past the session's endTime.                                        *)
C33_Witness ==
    /\ IsAddCall(lastCall)
    /\ Created(lastCall.sessionId)
    /\ lastCall.sender = votingSessions[lastCall.sessionId].creator
    /\ ~votingSessions[lastCall.sessionId].isActive
    /\ lastCall.result = SessionEnded
    /\ votingSessions[lastCall.sessionId].endTime < now

(* The answer for a candidate list, stated without the scan: nobody for   *)
(* an empty list, a tie for two or more leaders, otherwise the one leader  *)
(* (unnamed when it has no vote).                                          *)
WinnerOf(candidates) ==
    IF Len(candidates) = 0 THEN [result |-> NoCandidates]
    ELSE [result |-> OK,
          value |->
             IF Cardinality(Leaders(candidates)) >= 2
             THEN [winnerName |-> "", isTie |-> TRUE]
             ELSE [winnerName |->
                      IF MaxVotes(candidates) > 0
                      THEN candidates[CHOOSE i \in Leaders(candidates) : TRUE].name
                      ELSE "",
                   isTie |-> FALSE]]

(* ------------------------------- C34 ----------------------------------- *)
(* C34: getWinner of a created session depends on the names and voteCounts *)
(* of its candidates only, not on the clock or on isActive: before         *)
(* startTime, in the window, after endTime and after archival it returns   *)
(* the same answer for the same candidates, and a call of it changes no    *)
(* storage.                                                                *)
C34_WinnerIgnoresPhase ==
    /\ \A s \in SessionIds :
          Created(s) => getWinner(s) = WinnerOf(votingSessions[s].candidates)
    /\ (IsGetWinnerCall(lastCall) /\ Created(lastCall.sessionId))
       => /\ lastCall.ret = WinnerOf(Queried)
          /\ Snapshot = prev

(* getWinner named a winner for a session that is still active and before  *)
(* its startTime.                                                          *)
C34_Witness ==
    /\ IsGetWinnerCall(lastCall)
    /\ Created(lastCall.sessionId)
    /\ votingSessions[lastCall.sessionId].isActive
    /\ now < votingSessions[lastCall.sessionId].startTime
    /\ lastCall.ret.result = OK
    /\ lastCall.ret.value.winnerName # ""
    /\ Snapshot = prev

(* ------------------------------- C35 ----------------------------------- *)
(* C35: a successful addCandidate, vote or archiveSession on one session   *)
(* leaves every other session as it was, and an identity that has voted in *)
(* one session can still vote in another: its vote there, in the window    *)
(* and for a candidate there is, succeeds.                                 *)
C35_SessionsIsolated ==
    /\ ( /\ IsAddCall(lastCall) \/ IsVoteCall(lastCall) \/ IsArchiveCall(lastCall)
         /\ lastCall.result = OK )
       => \A t \in SessionIds \ {lastCall.sessionId} :
             votingSessions[t] = Before(t)
    /\ ( /\ IsVoteCall(lastCall)
         /\ lastCall.sessionId < prev.sessionCount
         /\ InWindow(Before(lastCall.sessionId))
         /\ lastCall.candidateId < Len(Before(lastCall.sessionId).candidates)
         /\ ~Before(lastCall.sessionId).hasVoted[lastCall.sender]
         /\ \E s \in SessionIds \ {lastCall.sessionId} :
               Before(s).hasVoted[lastCall.sender] )
       => lastCall.result = OK

(* An identity that had voted in one session has just voted in another.    *)
C35_Witness ==
    /\ IsVoteCall(lastCall)
    /\ lastCall.result = OK
    /\ \E s \in SessionIds \ {lastCall.sessionId} :
          /\ Before(s).hasVoted[lastCall.sender]
          /\ votingSessions[s] = Before(s)
          /\ SumVotes(votingSessions[s].candidates) > 0

(* The value of block.timestamp when the last call was made.               *)
NowBefore == IF lastCall.op = "tick" THEN now - 1 ELSE now

(* A created session without candidates whose startTime has been reached.  *)
Barren(session, time) ==
    /\ Len(session.candidates) = 0
    /\ session.startTime <= time

(* ------------------------------- C36 ----------------------------------- *)
(* C36: createVotingSession accepts a startTime that is not after now.     *)
(* With a clock that never goes back the session so created has no         *)
(* candidate and never gets one: every addCandidate on it fails, every     *)
(* vote on it fails (InvalidCandidate in the window, VotingNotActive       *)
(* outside) and getWinner on it fails with NoCandidates, in every later    *)
(* state.                                                                  *)
C36_LateSessionIsBarren ==
    /\ ( /\ IsCreateCall(lastCall)
         /\ lastCall.startTime <= now
         /\ lastCall.sender = prev.owner
         /\ lastCall.endTime > lastCall.startTime )
       => /\ lastCall.result = OK
          /\ Barren(votingSessions[prev.sessionCount], now)
    /\ \A s \in SessionIds :
          (s < prev.sessionCount /\ Barren(Before(s), NowBefore))
          => Barren(votingSessions[s], now)
    /\ \A s \in SessionIds :
          (Created(s) /\ Barren(votingSessions[s], now))
          => /\ \A sender \in Identities : addCandidateResult(sender, s) # OK
             /\ \A sender \in Identities : \A c \in CandidateIds :
                   voteResult(sender, s, c) =
                      IF InWindow(votingSessions[s]) THEN InvalidCandidate
                      ELSE VotingNotActive
             /\ getWinner(s) = [result |-> NoCandidates]

(* A session has just been created at a time past its startTime: in its   *)
(* window it takes no candidate, no vote, and has no winner.               *)
C36_Witness ==
    /\ IsCreateCall(lastCall)
    /\ lastCall.result = OK
    /\ lastCall.startTime < now
    /\ Barren(votingSessions[prev.sessionCount], now)
    /\ InWindow(votingSessions[prev.sessionCount])
    /\ addCandidateResult(lastCall.sender, prev.sessionCount) = VotingAlreadyOpen
    /\ voteResult(lastCall.sender, prev.sessionCount, 0) = InvalidCandidate
    /\ getWinner(prev.sessionCount) = [result |-> NoCandidates]

(* ------------------------------- C37 ----------------------------------- *)
(* C37: the creator of every created session is the identity that was the  *)
(* owner when it was created, so an identity that has never been the owner *)
(* never adds a candidate to any session.                                  *)
C37_CreatorWasOwner ==
    /\ (IsCreateCall(lastCall) /\ lastCall.result = OK)
       => /\ votingSessions[prev.sessionCount].creator = prev.owner
          /\ votingSessions[prev.sessionCount].creator = lastCall.sender
    /\ \A s \in SessionIds :
          Created(s) => votingSessions[s].creator \in audit.owners
    /\ (IsAddCall(lastCall) /\ lastCall.result = OK)
       => lastCall.sender \in audit.owners

(* An identity that received the ownership has added a candidate to a      *)
(* session it created, after giving the ownership away again.              *)
C37_Witness ==
    /\ IsAddCall(lastCall)
    /\ lastCall.result = OK
    /\ lastCall.sender # Deployer
    /\ lastCall.sender # owner
    /\ lastCall.sender \in audit.owners

(* The last step ran fetchSessions for the mounted page.                   *)
IsFetch(call) ==
    /\ call.op \in {"mount", "connectWallet", "accountsChanged"}
    /\ call.fetched

(* ------------------------------- C38 ----------------------------------- *)
(* C38: after a fetch VotingPage lists exactly the created sessions whose  *)
(* isActive is true and whose endTime has not passed at the time of the    *)
(* fetch, each once, with status "Active" (startTime <= time <= endTime)   *)
(* or "Not Started", the Active ones before the Not Started ones; and it   *)
(* shows a Vote button only for a candidate of a session that is Active    *)
(* and for which hasUserVoted was false for the connected account.         *)
C38_PageListsOpenSessions ==
    IsFetch(lastCall)
    => LET time == lastCall.currentTime
           shown == ui.sessions IN
       /\ {shown[k].id : k \in DOMAIN shown} =
             {s \in SessionIds : /\ Created(s)
                                 /\ votingSessions[s].isActive
                                 /\ votingSessions[s].endTime >= time}
       /\ \A k, l \in DOMAIN shown : k # l => shown[k].id # shown[l].id
       /\ \A k \in DOMAIN shown :
             shown[k].status =
                IF votingSessions[shown[k].id].startTime <= time
                THEN "Active" ELSE "Not Started"
       /\ \A k, l \in DOMAIN shown :
             k < l => ~(shown[k].status = "Not Started"
                        /\ shown[l].status = "Active")
       /\ \A button \in VoteButtons :
             LET session == votingSessions[button[1]] IN
             /\ Created(button[1])
             /\ session.isActive
             /\ session.startTime <= time
             /\ time <= session.endTime
             /\ ~session.hasVoted[lastCall.account]
             /\ button[2] < Len(session.candidates)

(* A fetch over a session not yet started and a later session in its      *)
(* window, with candidates: the page lists the Active one first, with a    *)
(* Vote button.                                                            *)
C38_Witness ==
    /\ IsFetch(lastCall)
    /\ Len(ui.sessions) = 2
    /\ ui.sessions[1].status = "Active"
    /\ ui.sessions[1].id > ui.sessions[2].id
    /\ ui.sessions[2].status = "Not Started"
    /\ VoteButtons # {}

(* ------------------------------- C39 ----------------------------------- *)
(* C39 as stated: once VotingPage is unmounted the accountsChanged handler *)
(* it registered is no longer registered on window.ethereum: there is at   *)
(* most one handler while a page is mounted and none otherwise, and an     *)
(* accountsChanged after the unmount runs no handler.                      *)
C39_ListenerRemovedOnUnmount ==
    /\ Cardinality(ui.listeners) <= (IF ui.mounted THEN 1 ELSE 0)
    /\ (lastCall.op = "accountsChanged" /\ ~ui.mounted) => lastCall.ran = {}

=============================================================================
